---- MODULE Spec2Model ----
(***************************************************************************)
(* Breadth-first search over the peasant / cabbage / goat / wolf puzzle,   *)
(* as implemented in DynamicBFS.cpp: the bit-level state encoding, the     *)
(* BFSProblem transition table, the Node constructor and the BFS loop.     *)
(* A Node* is modelled as the index of the node in the heap, in order of   *)
(* allocation.                                                             *)
(***************************************************************************)
EXTENDS Integers, Sequences, FiniteSets

VARIABLES
    initial,    \* Problem::initial
    goal,       \* Problem::goal
    pc,         \* where BFS is: "init", "while", "for", "free", "return", "done", "fault"
    heap,       \* the Node objects allocated with new, by pointer
    frontier,   \* deque<Node*> frontier
    expanded,   \* deque<Node*> expanded
    explored,   \* deque<short> explored
    solution,   \* deque<short> solution
    node,       \* Node* node
    acts,       \* the actions the range-for of line 249 has still to visit
    child,      \* Node* child
    freed,      \* the pointers delete has been applied to
    ret,        \* the deque BFS returned
    argState,   \* a direct call of result or actions: the state passed
    argAction,  \* a direct call of result: the action passed
    called,     \* which of the two was called: "none", "result", "actions"
    resultOut,  \* what result returned
    actionsOut  \* what actions returned

\* The variables of a direct call of BFSProblem's two functions.
callVars == <<argState, argAction, called, resultOut, actionsOut>>

vars == <<initial, goal, pc, heap, frontier, expanded, explored, solution,
          node, acts, child, freed, ret, callVars>>

----------------------------------------------------------------------------
(* Bounds of the model. *)

\* No more than MaxNodes nodes are allocated in one search.
MaxNodes == 40

\* result and actions are called directly on the states 0..MaxStateInput and
\* the actions 0..MaxActionInput.
MaxStateInput == 255
MaxActionInput == 255

----------------------------------------------------------------------------
(* State encoding, lines 36-53. *)

RW == 1
RG == 2
RC == 4
RP == 8
LW == 16
LG == 32
LC == 64
LP == 128
RPCGW == 15
PCGWR == 240
PGRCW == 165
CWRPG == 90
PCGRW == 225
WRPCG == 30
CRPGW == 75
PGWRC == 180
GRPCW == 45
PCWRG == 210

\* Every mask in the source is one of the eight single bits above, so the
\* bitwise operators are needed with a single bit as right operand only.
HasBit(x, bit) == (x \div bit) % 2 = 1

BitOrMut(x, bit) == x + bit

\* x | bit
BitOr(x, bit) == IF HasBit(x, bit) THEN x ELSE x + bit

BitAndNotMut(x, bit) == x

\* x & ~bit
BitAndNot(x, bit) == IF HasBit(x, bit) THEN x - bit ELSE x

----------------------------------------------------------------------------
(* Problem and BFSProblem. *)

goal_test(g) == goal = g

getInitial == initial

actionsMut(state) ==
    IF state = RPCGW THEN <<BitOr(LP, LG)>>
    ELSE IF state = PGRCW THEN <<RP, BitOr(RP, RG)>>
    ELSE IF state = PCGRW THEN <<BitOr(RP, RC), BitOr(RP, RG)>>
    ELSE IF state = CRPGW THEN <<BitOr(LP, LG), BitOr(LP, LC)>>
    ELSE IF state = PCWRG THEN <<BitOr(RP, RC), BitOr(RP, RW), RP>>
    ELSE IF state = WRPCG THEN <<BitOr(LP, LC), BitOr(LP, LG)>>
    ELSE IF state = CWRPG THEN <<LP, BitOr(LP, LG)>>
    ELSE IF state = GRPCW THEN <<LP, BitOr(LP, LC), BitOr(LP, LW)>>
    ELSE IF state = PGWRC THEN <<BitOr(RP, RG), BitOr(RP, RW)>>
    ELSE << >>

actions(state) ==
    IF state = RPCGW THEN <<BitOr(LP, LG)>>
    ELSE IF state = PGRCW THEN <<RP, BitOr(RP, RG)>>
    ELSE IF state = PCGRW THEN <<BitOr(RP, RC), BitOr(RP, RG)>>
    ELSE IF state = CRPGW THEN <<BitOr(LP, LG), BitOr(LP, LW)>>
    ELSE IF state = PCWRG THEN <<BitOr(RP, RC), BitOr(RP, RW), RP>>
    ELSE IF state = WRPCG THEN <<BitOr(LP, LC), BitOr(LP, LG)>>
    ELSE IF state = CWRPG THEN <<LP, BitOr(LP, LG)>>
    ELSE IF state = GRPCW THEN <<LP, BitOr(LP, LC), BitOr(LP, LW)>>
    ELSE IF state = PGWRC THEN <<BitOr(RP, RG), BitOr(RP, RW)>>
    ELSE << >>

\* & binds tighter than |, and ~ tighter than both:
\* state & ~RP & ~RC | LP | LC is ((state & ~RP) & ~RC) | LP | LC.
result(state, action) ==
    IF action = LP THEN
        BitOr(BitAndNot(state, RP), LP)
    ELSE IF action = BitOr(LP, LC) THEN
        BitOr(BitOr(BitAndNot(BitAndNot(state, RP), RC), LP), LC)
    ELSE IF action = BitOr(LP, LG) THEN
        BitOr(BitOr(BitAndNot(BitAndNot(state, RP), RG), LP), LG)
    ELSE IF action = BitOr(LP, LW) THEN
        BitOr(BitOr(BitAndNot(BitAndNot(state, RP), RW), LP), LW)
    ELSE IF action = RP THEN
        BitOr(BitAndNot(state, LP), RP)
    ELSE IF action = BitOr(RP, RC) THEN
        BitOr(BitOr(BitAndNot(BitAndNot(state, LP), LC), RP), RC)
    ELSE IF action = BitOr(RP, RG) THEN
        BitOr(BitOr(BitAndNot(BitAndNot(state, LP), LG), RP), RG)
    ELSE IF action = BitOr(RP, RW) THEN
        BitOr(BitOr(BitAndNot(BitAndNot(state, LP), LW), RP), RW)
    ELSE state

----------------------------------------------------------------------------
(* Node. *)

\* nullptr
NullPtr == 0

\* Node::Node(short s, short a, Node* p).  The member parent is never
\* assigned (and never read), so a node holds state, action and soln.
Node(s, a, p) ==
    [state  |-> s,
     action |-> a,
     soln   |-> Append(IF p # NullPtr THEN heap[p].soln ELSE << >>, a)]

getState(n) == heap[n].state

\* childNode(prob, parent, action)
childNode(parent, action) ==
    Node(result(getState(parent), action), action, parent)

\* What a read of a destroyed deque<short> can yield: its old contents, an
\* empty deque (storage cleared on release), or contents whose leading
\* entries were overwritten by the allocator.
JunkShorts == {-1}

FreedDeque(v) ==
    {v, << >>}
        \cup {[i \in 1..Len(v) |-> IF i <= k THEN j ELSE v[i]] :
                  k \in 1..Len(v), j \in JunkShorts}

\* Node::solution() called through pointer n.
SolutionOf(n) == IF n \in freed THEN FreedDeque(heap[n].soln) ELSE {heap[n].soln}

----------------------------------------------------------------------------
(* BFS. *)

\* find(frontier.begin(), frontier.end(), child) == frontier.end():
\* the elements compared are Node* values.
NotInFrontier(c) == \A i \in 1..Len(frontier) : frontier[i] # c

NotInExploredMut(s) == TRUE

\* find(explored.begin(), explored.end(), child->getState()) == explored.end()
NotInExplored(s) == \A i \in 1..Len(explored) : explored[i] # s

States ==
    {RPCGW, PCGWR, PGRCW, CWRPG, PCGRW, WRPCG, CRPGW, PGWRC, GRPCW, PCWRG, 0}

Init ==
    /\ initial \in States
    /\ goal \in States
    /\ pc = "init"
    /\ heap = << >>
    /\ frontier = << >>
    /\ expanded = << >>
    /\ explored = << >>
    /\ solution = << >>
    /\ node = NullPtr
    /\ acts = << >>
    /\ child = NullPtr
    /\ freed = {}
    /\ ret = << >>
    /\ argState = 0
    /\ argAction = 0
    /\ called = "none"
    /\ resultOut = 0
    /\ actionsOut = << >>

\* Lines 239-240: the root's solution is kept when the root is the goal.
RootSolutionMut(root) == root.soln

RootSolution(root) == IF goal_test(root.state) THEN root.soln ELSE solution

\* Lines 235-240.
Start ==
    /\ pc = "init"
    /\ LET root == Node(getInitial, 0, NullPtr) IN
        /\ heap' = <<root>>
        /\ node' = 1
        /\ frontier' = <<1>>
        /\ expanded' = <<1>>
        /\ solution' = RootSolution(root)
    /\ pc' = "while"
    /\ UNCHANGED callVars
    /\ UNCHANGED <<initial, goal, explored, acts, child, freed, ret>>

DequeueMut ==
    /\ pc = "while"
    /\ frontier # << >>
    /\ node' = frontier[Len(frontier)]
    /\ frontier' = SubSeq(frontier, 1, Len(frontier) - 1)
    /\ explored' = Append(explored, getState(frontier[Len(frontier)]))
    /\ acts' = actions(getState(frontier[Len(frontier)]))
    /\ pc' = "for"
    /\ UNCHANGED callVars
    /\ UNCHANGED <<initial, goal, heap, expanded, solution, child, freed, ret>>

\* Lines 242-249: the loop test, the dequeue and the call of actions.
Dequeue ==
    /\ pc = "while"
    /\ frontier # << >>
    /\ node' = Head(frontier)
    /\ frontier' = Tail(frontier)
    /\ explored' = Append(explored, getState(Head(frontier)))
    /\ acts' = actions(getState(Head(frontier)))
    /\ pc' = "for"
    /\ UNCHANGED callVars
    /\ UNCHANGED <<initial, goal, heap, expanded, solution, child, freed, ret>>

\* Lines 251-252: the child of the next action is allocated and recorded.
Generate ==
    /\ pc = "for"
    /\ acts # << >>
    /\ Len(heap) < MaxNodes
    /\ heap' = Append(heap, childNode(node, Head(acts)))
    /\ child' = Len(heap) + 1
    /\ expanded' = Append(expanded, Len(heap) + 1)

\* Lines 254-255, on the child being generated.
Admitted ==
    /\ NotInFrontier(Len(heap) + 1)
    /\ NotInExplored(childNode(node, Head(acts)).state)

\* Lines 257-258: the child is new and is the goal.
ChildGoal ==
    /\ Generate
    /\ Admitted
    /\ goal_test(childNode(node, Head(acts)).state)
    /\ pc' = "free"
    /\ UNCHANGED callVars
    /\ UNCHANGED <<initial, goal, frontier, explored, solution, node, acts,
                   freed, ret>>

\* Line 266: the child is new and is not the goal.
ChildEnqueue ==
    /\ Generate
    /\ Admitted
    /\ ~goal_test(childNode(node, Head(acts)).state)
    /\ frontier' = Append(frontier, Len(heap) + 1)
    /\ acts' = Tail(acts)
    /\ UNCHANGED callVars
    /\ UNCHANGED <<initial, goal, pc, explored, solution, node, freed, ret>>

\* Lines 254-255 false: the child is left in expanded only.
ChildDiscard ==
    /\ Generate
    /\ ~Admitted
    /\ acts' = Tail(acts)
    /\ UNCHANGED callVars
    /\ UNCHANGED <<initial, goal, pc, frontier, explored, solution, node,
                   freed, ret>>

\* Line 268: the range-for is over.
EndFor ==
    /\ pc = "for"
    /\ acts = << >>
    /\ pc' = "while"
    /\ UNCHANGED callVars
    /\ UNCHANGED <<initial, goal, heap, frontier, expanded, explored, solution,
                   node, acts, child, freed, ret>>

\* Lines 260-261: delete every node of expanded.
FreeNodes ==
    /\ pc = "free"
    /\ freed' = freed \cup {expanded[i] : i \in 1..Len(expanded)}
    /\ pc' = "return"
    /\ UNCHANGED callVars
    /\ UNCHANGED <<initial, goal, heap, frontier, expanded, explored, solution,
                   node, acts, child, ret>>

\* Line 263: return child->solution().
ReturnChild ==
    /\ pc = "return"
    /\ \E v \in SolutionOf(child) : ret' = v
    /\ pc' = "done"
    /\ UNCHANGED callVars
    /\ UNCHANGED <<initial, goal, heap, frontier, expanded, explored, solution,
                   node, acts, child, freed>>

\* Line 263 when the read of the deleted node is trapped.
ReturnFault ==
    /\ pc = "return"
    /\ child \in freed
    /\ pc' = "fault"
    /\ UNCHANGED callVars
    /\ UNCHANGED <<initial, goal, heap, frontier, expanded, explored, solution,
                   node, acts, child, freed, ret>>

\* Lines 242 and 271: the frontier is empty.
ReturnSolution ==
    /\ pc = "while"
    /\ frontier = << >>
    /\ ret' = solution
    /\ pc' = "done"
    /\ UNCHANGED callVars
    /\ UNCHANGED <<initial, goal, heap, frontier, expanded, explored, solution,
                   node, acts, child, freed>>

Next ==
    \/ Start
    \/ Dequeue
    \/ ChildGoal
    \/ ChildEnqueue
    \/ ChildDiscard
    \/ EndFor
    \/ FreeNodes
    \/ ReturnChild
    \/ ReturnFault
    \/ ReturnSolution

Spec == Init /\ [][Next]_vars

\* BFS is one sequential call: it keeps running until it returns.
FairSpec == Spec /\ WF_vars(Next)

----------------------------------------------------------------------------
(* BFSProblem::result and BFSProblem::actions called directly, on any      *)
(* state and action of the input ranges.                                   *)

BFSIdle ==
    /\ initial = RPCGW
    /\ goal = PCGWR
    /\ pc = "init"
    /\ heap = << >>
    /\ frontier = << >>
    /\ expanded = << >>
    /\ explored = << >>
    /\ solution = << >>
    /\ node = NullPtr
    /\ acts = << >>
    /\ child = NullPtr
    /\ freed = {}
    /\ ret = << >>

BFSUnchanged ==
    UNCHANGED <<initial, goal, pc, heap, frontier, expanded, explored,
                solution, node, acts, child, freed, ret>>

CallInit ==
    /\ BFSIdle
    /\ argState \in 0..MaxStateInput
    /\ argAction \in 0..MaxActionInput
    /\ called = "none"
    /\ resultOut = 0
    /\ actionsOut = << >>

CallResult ==
    /\ called = "none"
    /\ resultOut' = result(argState, argAction)
    /\ called' = "result"
    /\ UNCHANGED <<argState, argAction, actionsOut>>
    /\ BFSUnchanged

CallActions ==
    /\ called = "none"
    /\ actionsOut' = actions(argState)
    /\ called' = "actions"
    /\ UNCHANGED <<argState, argAction, resultOut>>
    /\ BFSUnchanged

CallNext ==
    \/ CallResult
    \/ CallActions

CallSpec == CallInit /\ [][CallNext]_vars

----------------------------------------------------------------------------
(* What the problem itself determines, computed from actions and result    *)
(* alone, independently of the search.                                     *)

RECURSIVE ReachableFrom(_)
ReachableFrom(S) ==
    LET T == S \cup UNION {{result(s, actions(s)[i]) : i \in 1..Len(actions(s))} : s \in S}
    IN  IF T = S THEN S ELSE ReachableFrom(T)

\* The least number of actions leading from a state of S to g, counted from d.
RECURSIVE Distance(_, _, _)
Distance(S, g, d) ==
    LET T == S \cup UNION {{result(s, actions(s)[i]) : i \in 1..Len(actions(s))} : s \in S}
    IN  IF g \in S THEN d
        ELSE IF T = S THEN -1
        ELSE Distance(T, g, d + 1)

Solvable == goal \in ReachableFrom({initial})

MinActions == Distance({initial}, goal, 0)

\* The state reached from s by applying the entries of path in order.
RECURSIVE ApplyAll(_, _)
ApplyAll(s, path) ==
    IF path = << >> THEN s ELSE ApplyAll(result(s, Head(path)), Tail(path))

\* The entries of path that main's switch translates (the eight action codes).
ActionCodes ==
    {LP, BitOr(LP, LC), BitOr(LP, LG), BitOr(LP, LW),
     RP, BitOr(RP, RC), BitOr(RP, RG), BitOr(RP, RW)}

RECURSIVE Translated(_)
Translated(path) ==
    IF path = << >> THEN << >>
    ELSE IF Head(path) \in ActionCodes THEN <<Head(path)>> \o Translated(Tail(path))
    ELSE Translated(Tail(path))

\* The deque line 271 returns when nothing was found.
FailureSignal == << >>

IsMainInstance == initial = RPCGW /\ goal = PCGWR

----------------------------------------------------------------------------
(* Claims. *)

\* C1: when the initial state satisfies goal_test, BFS returns an empty
\* action sequence (length 0).
C1_InitialGoalReturnsEmpty ==
    (pc = "done" /\ goal_test(initial)) => Len(ret) = 0

\* C2: for a solvable problem, the returned action sequence applied in order
\* with result, starting from the initial state, ends in a goal state.
C2_ReturnedPathReachesGoal ==
    (pc = "done" /\ Solvable) => goal_test(ApplyAll(initial, ret))

\* C3: for a solvable problem, the length of the returned sequence is the
\* least number of actions leading from the initial state to the goal.
C3_ReturnedLengthIsMinimal ==
    (pc = "done" /\ Solvable) => Len(ret) = MinActions

\* C4: no state is expanded twice: explored, which records the state of
\* every dequeued node just before actions is called on it, has no state twice.
C4_NoStateExpandedTwice ==
    \A i, j \in 1..Len(explored) : i # j => explored[i] # explored[j]

\* C5: for main's instance BFS returns the 7-action solution, peasant+goat
\* left, peasant right, cabbage or wolf left, peasant+goat right, the other
\* left, peasant right, peasant+goat left.
C5_MainFindsSevenActions ==
    (pc = "done" /\ IsMainInstance) =>
        Translated(ret) \in
            {<<BitOr(LP, LG), RP, BitOr(LP, LC), BitOr(RP, RG),
               BitOr(LP, LW), RP, BitOr(LP, LG)>>,
             <<BitOr(LP, LG), RP, BitOr(LP, LW), BitOr(RP, RG),
               BitOr(LP, LC), RP, BitOr(LP, LG)>>}

BFSEnded == pc \in {"done", "fault"}

\* C6: BFS ends, whether or not the goal is reachable: the run reaches line
\* 263 after generating a goal child, or line 271 with the frontier empty.
C6_Terminates ==
    <>(BFSEnded /\ (freed # {} \/ frontier = << >>))

C6_Witness ==
    /\ pc = "done"
    /\ freed = {}
    /\ frontier = << >>
    /\ Len(explored) >= 10
    /\ Len(heap) > Len(explored)

\* C7: when the goal is not reachable from the initial state, BFS never
\* takes the success path, and it returns the empty deque with the frontier
\* empty.
C7_UnsolvableReturnsFailure ==
    ~Solvable =>
        /\ pc \notin {"free", "return", "fault"}
        /\ pc = "done" => (ret = FailureSignal /\ frontier = << >>)

C7_Witness ==
    /\ ~Solvable
    /\ pc = "done"
    /\ Len(explored) >= 10

\* C8: no successful search returns the value an exhausted search returns.
C8_FailureDistinguishable ==
    (pc = "done" /\ Solvable) => ret # FailureSignal

\* C9: the frontier never holds two nodes with the same state.
C9_FrontierStatesDistinct ==
    \A i, j \in 1..Len(frontier) :
        i # j => getState(frontier[i]) # getState(frontier[j])

\* C10: a child whose state is in explored when it is generated is neither
\* enqueued nor returned as the goal: the step that generates it leaves the
\* frontier as it was and stays in the loop over the actions.
C10_ExploredChildDiscarded ==
    [][(/\ pc = "for"
        /\ acts # << >>
        /\ \E i \in 1..Len(explored) :
               explored[i] = result(getState(node), Head(acts)))
       => (frontier' = frontier /\ pc' = "for")]_vars

\* A child with the goal's state was generated while that state was in
\* explored, and the search went on without it.
C10_Witness ==
    /\ pc = "for"
    /\ child # NullPtr
    /\ Len(acts) < Len(actions(getState(node)))
    /\ heap[child].soln = Append(heap[node].soln, heap[child].action)
    /\ goal_test(getState(child))
    /\ \E i \in 1..Len(explored) : explored[i] = getState(child)
    /\ \A i \in 1..Len(frontier) : frontier[i] # child

\* C11: when the initial state satisfies goal_test, BFS returns right after
\* creating the root: no node is ever dequeued (explored, appended at every
\* dequeue just before actions is called, stays empty).
C11_InitialGoalReturnsAtOnce ==
    goal_test(initial) => explored = << >>

\* C12: whenever a child whose state satisfies goal_test is generated, the
\* search leaves the loops at once to return that child's solution, whether
\* or not that state is in explored or in the frontier.
C12_GoalChildEndsSearch ==
    [][(/\ pc = "for"
        /\ acts # << >>
        /\ goal_test(result(getState(node), Head(acts))))
       => pc' = "free"]_vars

\* C13: when BFS has concluded, by success or by exhaustion, every node
\* allocated during the search has been released.
C13_AllNodesReleased ==
    BFSEnded => freed = 1..Len(heap)

CabbageFirst ==
    <<BitOr(LP, LG), RP, BitOr(LP, LC), BitOr(RP, RG),
      BitOr(LP, LW), RP, BitOr(LP, LG)>>

\* The deque the run has computed when it returns: solution at line 271, the
\* goal child's soln at line 263.
ComputedResult == IF freed = {} THEN solution ELSE heap[child].soln

\* C14: the returned sequence is the one the (deterministic) search has
\* computed, so two runs on the same problem return the same sequence; for
\* main's instance it is the cabbage-first solution.
C14_Deterministic ==
    pc = "done" =>
        /\ ret = ComputedResult
        /\ IsMainInstance => Translated(ret) = CabbageFirst

\* C15: the root holds the path <<0>>; every other node holds the path of
\* an earlier node (its parent) with its own action appended, so every path
\* starts with the sentinel 0; and the sequence returned on success starts
\* with that sentinel.
C15_PathsStartWithSentinel ==
    /\ \A n \in 1..Len(heap) :
          /\ n = 1 => heap[n].soln = <<0>>
          /\ n > 1 => \E p \in 1..(n - 1) :
                          heap[n].soln = Append(heap[p].soln, heap[n].action)
          /\ heap[n].soln[1] = 0
    /\ (pc = "done" /\ Solvable) => (ret # << >> /\ ret[1] = 0)

\* Number of actions between the root and node n.
Depth(n) == Len(heap[n].soln) - 1

\* C16: the frontier, front to back, has non-decreasing depths that differ
\* by at most 1 between first and last node, and the node dequeued last is
\* no deeper than the node to be dequeued next.
C16_FifoLayerOrder ==
    /\ \A i, j \in 1..Len(frontier) :
          i < j => Depth(frontier[i]) <= Depth(frontier[j])
    /\ frontier # << >> =>
          Depth(frontier[Len(frontier)]) - Depth(Head(frontier)) <= 1
    /\ (node # NullPtr /\ frontier # << >>) =>
          Depth(node) <= Depth(Head(frontier))

\* The frontier holds nodes of two successive layers.
C16_Witness ==
    /\ Len(frontier) >= 2
    /\ Depth(frontier[Len(frontier)]) = Depth(Head(frontier)) + 1
    /\ Depth(node) = Depth(Head(frontier))

\* C18: BFS never reads a node after releasing it: when line 263 is about to
\* call child->solution(), child has not been deleted.
C18_NoReadAfterRelease ==
    pc = "return" => child \notin freed

\* Whether the bit is set in the encoded state.
On(s, bit) == (s \div bit) % 2 = 1

\* Each of the four is on exactly one bank, and the goat is not left with
\* the wolf or with the cabbage on the bank the peasant is not on.
Legal(s) ==
    /\ s \in 0..255
    /\ s \div 16 = 15 - (s % 16)
    /\ (On(s, RG) = On(s, RW)) => (On(s, RP) = On(s, RG))
    /\ (On(s, RG) = On(s, RC)) => (On(s, RP) = On(s, RG))

\* C19: every state generated in a search from RPCGW is a legal
\* configuration of the puzzle.
C19_GeneratedStatesLegal ==
    initial = RPCGW => \A n \in 1..Len(heap) : Legal(heap[n].state)

\* A search from RPCGW that generated all ten configurations.
C19_Witness ==
    /\ initial = RPCGW
    /\ Cardinality({heap[n].state : n \in 1..Len(heap)}) = 10

\* The sixteen bits of a short, and those set in x.
AllBits == {2^k : k \in 0..15}

BitsOf(x) == {b \in AllBits : On(x, b)}

\* The bit of the same passenger on the other bank.
Opposite(bit) == IF bit >= 16 THEN bit \div 16 ELSE bit * 16

EightActions ==
    {LP, LP + LC, LP + LG, LP + LW, RP, RP + RC, RP + RG, RP + RW}

\* C17: for the eight action codes result returns the state with the bits
\* of the action on, the bits of the same passengers on the opposite bank
\* off and every other bit unchanged; for any other action it returns the
\* state unchanged.
C17_ResultMovesBits ==
    called = "result" =>
        /\ resultOut \in 0..65535
        /\ BitsOf(resultOut) =
              IF argAction \in EightActions
              THEN (BitsOf(argState) \ {Opposite(b) : b \in BitsOf(argAction)})
                       \cup BitsOf(argAction)
              ELSE BitsOf(argState)

\* The peasant and the cabbage cross to the left from a state that has the
\* peasant already marked on the left: the right-bank bits are cleared.
C17_Witness ==
    /\ called = "result"
    /\ argAction = LP + LC
    /\ argState = LP + RP + RC + RG
    /\ resultOut = LP + LC + RG

NineStates ==
    {RPCGW, PGRCW, PCGRW, CRPGW, PCWRG, WRPCG, CWRPG, GRPCW, PGWRC}

\* Action a takes the peasant, alone or with one passenger, from the bank
\* they are on in state s to the other bank, and changes the state.
IsCrossing(s, a) ==
    /\ a \in EightActions
    /\ \E p \in {LP, RP} :
          /\ p \in BitsOf(a)
          /\ On(s, Opposite(p))
          /\ Cardinality(BitsOf(a) \ {p}) <= 1
          /\ \A q \in BitsOf(a) \ {p} :
                /\ (q >= 16) = (p >= 16)
                /\ On(s, Opposite(q))
    /\ result(s, a) # s

\* C20: for each of the nine states actions defines, every action returned
\* is such a crossing; for every other state actions returns nothing.
C20_ActionsAreCrossings ==
    called = "actions" =>
        IF argState \in NineStates
        THEN /\ actionsOut # << >>
             /\ \A i \in 1..Len(actionsOut) : IsCrossing(argState, actionsOut[i])
        ELSE actionsOut = << >>

C20_Witness ==
    /\ called = "actions"
    /\ argState = PCWRG
    /\ actionsOut = <<RP + RC, RP + RW, RP>>

====
